---- MODULE Spec2Model ----
(***************************************************************************)
(* Model of kazuph/github-metrics: the calendar aggregation of             *)
(* GitHubAPI.get_user_stats (api.py), the month graph encoding             *)
(* get_month_graph, the single-year report print_single_report and the     *)
(* command create_report (cli.py).                                         *)
(*                                                                         *)
(* Dates "%Y-%m-%d" are modelled as the integer yyyymmdd; parsing a date   *)
(* and taking .month is the digit extraction MonthOf.  Repository names    *)
(* are opaque identifiers (integers).  Glyphs are one-character strings.   *)
(***************************************************************************)
EXTENDS Integers, Sequences, FiniteSets, TLC

VARIABLES
    pc,            \* position of the running function / command
    year_arg,      \* year argument of get_user_stats
    payload,       \* GraphQL "data" get_user_stats works on
    stats,         \* record returned by get_user_stats / given to a report
    month,         \* month argument of get_month_graph
    graph,         \* [graph, total] returned by get_month_graph
    now,           \* datetime.now()
    report,        \* what print_single_report did: [raised, lines]
    argv,          \* command line: [years, year, json]
    env,           \* [token, username]: whether the two lookups succeed
    all_years,     \* sorted(set(years + year))
    calls,         \* get_user_stats calls made so far: <<year, outcome>>
    all_stats,     \* text mode: list of fetched stats
    results,       \* json mode: list of fetched stats without the calendar
    console,       \* what the console has received, in order
    exit_code      \* process exit status

vars == <<pc, year_arg, payload, stats, month, graph, now, report, argv, env,
          all_years, calls, all_stats, results, console, exit_code>>

(***************************************************************************)
(* Bounds                                                                  *)
(***************************************************************************)
MaxDays == 6          \* longest calendar drawn for the streak computation
MaxCount == 2         \* largest daily count drawn for the streak computation
MaxRepos == 11        \* longest repository list drawn (one more than the cut)
MaxShortRepos == 6    \* longest repository list drawn with commits 1..MaxCommits
MaxCommits == 3       \* largest commit count of a repository in a short list

(***************************************************************************)
(* Generic helpers                                                         *)
(***************************************************************************)
Max(a, b) == IF a >= b THEN a ELSE b

Min(a, b) == IF a <= b THEN a ELSE b

Reverse(s) == [i \in 1..Len(s) |-> s[Len(s) + 1 - i]]

\* the sequences of ss[lo..hi] joined, in order
RECURSIVE FlattenRange(_, _, _)
FlattenRange(ss, lo, hi) ==
    IF lo > hi THEN <<>>
    ELSE IF lo = hi THEN ss[lo]
    ELSE LET mid == (lo + hi) \div 2
         IN  FlattenRange(ss, lo, mid) \o FlattenRange(ss, mid + 1, hi)

Flatten(ss) == FlattenRange(ss, 1, Len(ss))

\* s[lo] + ... + s[hi]
RECURSIVE SumRange(_, _, _)
SumRange(s, lo, hi) ==
    IF lo > hi THEN 0
    ELSE IF lo = hi THEN s[lo]
    ELSE LET mid == (lo + hi) \div 2
         IN  SumRange(s, lo, mid) + SumRange(s, mid + 1, hi)

SumSeq(s) == SumRange(s, 1, Len(s))

SeqsUpTo(S, n) == UNION {[1..k -> S] : k \in 0..n}

(***************************************************************************)
(* Dates                                                                   *)
(***************************************************************************)
IsLeap(y) == (y % 4 = 0 /\ y % 100 # 0) \/ y % 400 = 0

DaysInMonth(y, m) ==
    IF m = 2 THEN (IF IsLeap(y) THEN 29 ELSE 28)
    ELSE IF m \in {4, 6, 9, 11} THEN 30 ELSE 31

MkDate(y, m, d) == y * 10000 + m * 100 + d

\* datetime.strptime(day["date"], "%Y-%m-%d").month
MonthOf(date) == (date \div 100) % 100

\* the n-th day (1-based) of year y, searched from month m on
RECURSIVE DateFrom(_, _, _)
DateFrom(y, m, n) ==
    IF n <= DaysInMonth(y, m) \/ m = 12 THEN MkDate(y, m, n)
    ELSE DateFrom(y, m + 1, n - DaysInMonth(y, m))

DateOfOrdinal(y, n) == DateFrom(y, 1, n)

\* contributionCalendar.weeks: the days from 1 January on, seven per week
Weeks(ds) ==
    [w \in 1..((Len(ds) + 6) \div 7) |->
        [contributionDays |-> SubSeq(ds, 7 * (w - 1) + 1, Min(7 * w, Len(ds)))]]

ContributionDays(y, counts) ==
    [i \in 1..Len(counts) |->
        [date |-> DateOfOrdinal(y, i), contributionCount |-> counts[i]]]

CommitContributions(commits) ==
    [i \in 1..Len(commits) |->
        [repository |-> [nameWithOwner |-> i, isPrivate |-> (i % 2 = 0)],
         contributions |-> [totalCount |-> commits[i]]]]

\* the "data" object returned by get_contribution_calendar for a found user
Payload(y, counts, commits) ==
    [user |-> [contributionsCollection |->
        [totalCommitContributions |-> SumSeq(commits),
         totalIssueContributions |-> 1,
         totalPullRequestContributions |-> 2,
         totalPullRequestReviewContributions |-> 3,
         totalRepositoriesWithContributedCommits |-> Len(commits),
         contributionCalendar |->
            [totalContributions |-> SumSeq(counts),
             weeks |-> Weeks(ContributionDays(y, counts))],
         commitContributionsByRepository |-> CommitContributions(commits)]]]

Counts(ds) == [i \in 1..Len(ds) |-> ds[i].contributionCount]

(***************************************************************************)
(* GitHubAPI.get_user_stats                                                *)
(***************************************************************************)
AllDays(calendar) ==
    Flatten([w \in 1..Len(calendar.weeks) |-> calendar.weeks[w].contributionDays])

\* the loop body without the reset of temp_streak
MaxStreakStepNoReset(st, day) ==
    IF day.contributionCount > 0
    THEN [temp_streak |-> st.temp_streak + 1,
          max_streak |-> Max(st.max_streak, st.temp_streak + 1)]
    ELSE st

\* the loop body updating max_streak only where a run is broken
MaxStreakStepOnReset(st, day) ==
    IF day.contributionCount > 0
    THEN [temp_streak |-> st.temp_streak + 1, max_streak |-> st.max_streak]
    ELSE [temp_streak |-> 0, max_streak |-> Max(st.max_streak, st.temp_streak)]

\* body of the loop "for day in all_days" on [temp_streak, max_streak]
MaxStreakStep(st, day) ==
    IF day.contributionCount > 0
    THEN [temp_streak |-> st.temp_streak + 1,
          max_streak |-> Max(st.max_streak, st.temp_streak + 1)]
    ELSE [temp_streak |-> 0, max_streak |-> st.max_streak]

\* the loop "for day in all_days" over ds[lo], ..., ds[hi] in this order,
\* from state st (the state after ds[lo..mid] is bound as a value before the
\* loop goes on with ds[mid+1..hi], which keeps the evaluation of a whole
\* year shallow)
RECURSIVE MaxStreakLoop(_, _, _, _)
MaxStreakLoop(ds, lo, hi, st) ==
    IF lo > hi THEN st
    ELSE IF lo = hi THEN MaxStreakStep(st, ds[lo])
    ELSE LET mid == (lo + hi) \div 2
         IN  CHOOSE last \in {MaxStreakLoop(ds, mid + 1, hi, half) :
                                half \in {MaxStreakLoop(ds, lo, mid, st)}} : TRUE

StreakInit == [temp_streak |-> 0, max_streak |-> 0]

MaxStreak(all_days) == MaxStreakLoop(all_days, 1, Len(all_days), StreakInit).max_streak

\* body of the loop "for day in reversed(all_days)"; stopped is the break
CurrentStreakStep(st, day) ==
    IF st.stopped THEN st
    ELSE IF day.contributionCount > 0
         THEN [current_streak |-> st.current_streak + 1, stopped |-> FALSE]
         ELSE [current_streak |-> st.current_streak, stopped |-> TRUE]

\* the loop over rds[lo], ..., rds[hi] in this order, from state st
RECURSIVE CurrentStreakLoop(_, _, _, _)
CurrentStreakLoop(rds, lo, hi, st) ==
    IF lo > hi THEN st
    ELSE IF lo = hi THEN CurrentStreakStep(st, rds[lo])
    ELSE LET mid == (lo + hi) \div 2
         IN  CHOOSE last \in {CurrentStreakLoop(rds, mid + 1, hi, half) :
                                half \in {CurrentStreakLoop(rds, lo, mid, st)}} : TRUE

CurrentInit == [current_streak |-> 0, stopped |-> FALSE]

\* the loop run over all_days instead of reversed(all_days)
CurrentStreakForward(all_days) ==
    CurrentStreakLoop(all_days, 1, Len(all_days), CurrentInit).current_streak

CurrentStreak(all_days) ==
    CurrentStreakLoop(Reverse(all_days), 1, Len(all_days), CurrentInit).current_streak

(***************************************************************************)
(* sorted(repos, key=totalCount, reverse=True): list.sort reverses the     *)
(* list, sorts it stably in ascending key order and reverses the result    *)
(***************************************************************************)
CommitKey(r) == r.contributions.totalCount

\* insert r behind every element whose key is not larger
RECURSIVE InsertStable(_, _)
InsertStable(s, r) ==
    IF s = <<>> THEN <<r>>
    ELSE IF CommitKey(Head(s)) <= CommitKey(r)
         THEN <<Head(s)>> \o InsertStable(Tail(s), r)
         ELSE <<r>> \o s

RECURSIVE StableSortAscending(_)
StableSortAscending(s) ==
    IF s = <<>> THEN <<>>
    ELSE InsertStable(StableSortAscending(SubSeq(s, 1, Len(s) - 1)), s[Len(s)])

\* an ascending sort whose result is reversed afterwards
SortedReversedAfterwards(repos) == Reverse(StableSortAscending(repos))

SortedByCommitsReverse(repos) == Reverse(StableSortAscending(Reverse(repos)))

TopN == 10

TopRepos(repos) ==
    LET sorted == SortedByCommitsReverse(repos)
    IN  SubSeq(sorted, 1, Min(TopN, Len(sorted)))

\* data.get("user") is falsy: the user is null (the empty mapping here)
NoUser == <<>>

UserMissing(data) == DOMAIN data.user = {}

\* the record returned by get_user_stats for a found user
GetUserStats(year, data) ==
    LET collection == data.user.contributionsCollection
        calendar == collection.contributionCalendar
        all_days == AllDays(calendar)
        top_repos == TopRepos(collection.commitContributionsByRepository)
    IN  [year |-> year,
         total_contributions |-> calendar.totalContributions,
         commits |-> collection.totalCommitContributions,
         issues |-> collection.totalIssueContributions,
         pull_requests |-> collection.totalPullRequestContributions,
         reviews |-> collection.totalPullRequestReviewContributions,
         repositories_contributed |-> collection.totalRepositoriesWithContributedCommits,
         current_streak |-> CurrentStreak(all_days),
         max_streak |-> MaxStreak(all_days),
         top_repositories |->
            [i \in 1..Len(top_repos) |->
                [name |-> top_repos[i].repository.nameWithOwner,
                 private |-> top_repos[i].repository.isPrivate,
                 commits |-> top_repos[i].contributions.totalCount]],
         daily_contributions |-> all_days]

(***************************************************************************)
(* get_month_graph (cli.py).  The four block characters are named by       *)
(* their glyph class; Space is the blank " ".                              *)
(***************************************************************************)
Empty == "empty"

Light == "light"

Medium == "medium"

Dense == "dense"

Space == "space"

intensity(count) ==
    IF count = 0 THEN Empty
    ELSE IF count <= 3 THEN Light
    ELSE IF count <= 6 THEN Medium
    ELSE Dense

GraphWidth == 31

Repeat(ch, n) == [i \in 1..n |-> ch]

\* str.ljust(width, fill): fill on the right, never truncate
ljust(str, width, fill) ==
    IF Len(str) >= width THEN str ELSE str \o Repeat(fill, width - Len(str))

\* the loop collecting the counts of the days of the month
MonthCounts(daily_contributions, m) ==
    Counts(SelectSeq(daily_contributions, LAMBDA day : MonthOf(day.date) = m))

get_month_graph(daily_contributions, m) ==
    LET counts == MonthCounts(daily_contributions, m)
    IN  IF counts = <<>>
        THEN [graph |-> Repeat(Empty, GraphWidth), total |-> 0]
        ELSE [graph |-> ljust([i \in 1..Len(counts) |-> intensity(counts[i])],
                              GraphWidth, Space),
              total |-> SumSeq(counts)]

(***************************************************************************)
(* print_single_report (cli.py)                                            *)
(***************************************************************************)
\* stats.get(key) is truthy: the key is there and its list is not empty
Truthy(st, key) == key \in DOMAIN st /\ st[key] # <<>>

\* the sections in print order, each with the keys it subscripts before it
\* is printed; a missing key raises KeyError in place of the section
ReportSections ==
    << [name |-> "header", keys |-> {"year"}],
       [name |-> "total", keys |-> {"total_contributions"}],
       [name |-> "public", keys |-> {"public_contributions"}],
       [name |-> "private", keys |-> {"private_contributions"}],
       [name |-> "breakdown",
        keys |-> {"commits", "pull_requests", "issues", "reviews", "new_repositories"}],
       [name |-> "activity",
        keys |-> {"repositories_contributed", "current_streak", "max_streak"}] >>

\* number of leading sections printed before a KeyError (all, if none)
PrintedSections(st) ==
    LET bad == {i \in 1..Len(ReportSections) :
                    ~(ReportSections[i].keys \subseteq DOMAIN st)}
    IN  IF bad = {} THEN Len(ReportSections)
        ELSE (CHOOSE i \in bad : \A j \in bad : i <= j) - 1

\* the condition under which the line of month month_idx is printed
MonthLineShown(st, month_idx, today) ==
    \/ get_month_graph(st.daily_contributions, month_idx).total > 0
    \/ month_idx <= today.month

MonthIndices == [i \in 1..12 |-> i]

print_single_report(st, today) ==
    LET n == PrintedSections(st)
        raised == n < Len(ReportSections)
    IN  [raised |-> raised,
         sections |-> [i \in 1..n |-> ReportSections[i].name],
         lines |-> IF ~raised /\ Truthy(st, "daily_contributions")
                   THEN SelectSeq(MonthIndices, LAMBDA m : MonthLineShown(st, m, today))
                   ELSE <<>>,
         repos |-> IF ~raised /\ Truthy(st, "top_repositories")
                   THEN SubSeq(st.top_repositories, 1, Min(5, Len(st.top_repositories)))
                   ELSE <<>>]

(***************************************************************************)
(* create_report (cli.py)                                                  *)
(***************************************************************************)
SeqToSet(sq) == {sq[i] : i \in 1..Len(sq)}

\* sorted(S): the elements of a set of integers in ascending order
RECURSIVE SortedSet(_)
SortedSet(S) ==
    IF S = {} THEN <<>>
    ELSE LET least == CHOOSE x \in S : \A z \in S : x <= z
         IN  <<least>> \o SortedSet(S \ {least})

\* all_years: positional years and --year options, the current year when
\* none is given, without duplicates and ascending
AllYears(years, year_opt, today) ==
    IF years \o year_opt = <<>> THEN <<today.year>>
    ELSE SortedSet(SeqToSet(years \o year_opt))

\* the record with "daily_contributions" left in
PopNothing(st) == st

\* stats.pop("daily_contributions", None)
PopDailyContributions(st) ==
    [k \in DOMAIN st \ {"daily_contributions"} |-> st[k]]

\* the dispatch that hands any non-empty list to the comparison report
ReportForAny(n) == IF n >= 1 THEN "comparison" ELSE "none"

\* which report the text branch prints for n fetched years
ReportFor(n) == IF n = 1 THEN "single" ELSE IF n > 1 THEN "comparison" ELSE "none"

\* one item written to the console
Item(kind, years, records) == [kind |-> kind, years |-> years, records |-> records]

YearsOf(sts) == [i \in 1..Len(sts) |-> sts[i].year]

(***************************************************************************)
(* Values of the variables a run does not use                              *)
(***************************************************************************)
NoStats == [year |-> 0]

NoGraph == [graph |-> <<>>, total |-> 0]

NoReport == [raised |-> FALSE, sections |-> <<>>, lines |-> <<>>, repos |-> <<>>]

NoDate == [year |-> 0, month |-> 0, day |-> 0]

NoArgv == [years |-> <<>>, year |-> <<>>, json |-> FALSE]

NoEnv == [token |-> FALSE, username |-> FALSE]

CommandIdle ==
    /\ argv = NoArgv /\ env = NoEnv /\ all_years = <<>> /\ calls = <<>>
    /\ all_stats = <<>> /\ results = <<>> /\ console = <<>> /\ exit_code = 0

GraphIdle == month = 0 /\ graph = NoGraph

ReportIdle == now = NoDate /\ report = NoReport

(***************************************************************************)
(* get_user_stats as a function of the payload                             *)
(***************************************************************************)
StreakYear == 2023

InitStreak ==
    /\ pc = "call"
    /\ year_arg = StreakYear
    /\ \E counts \in SeqsUpTo(0..MaxCount, MaxDays) :
          payload \in {Payload(year_arg, counts, <<1>>), [user |-> NoUser]}
    /\ stats = NoStats
    /\ GraphIdle /\ ReportIdle /\ CommandIdle

\* the commit counts drawn for the lists longer than MaxShortRepos
LongListCommits == {1, 2}

InitRepos ==
    /\ pc = "call"
    /\ year_arg = StreakYear
    /\ \E commits \in SeqsUpTo(1..MaxCommits, MaxShortRepos)
                        \cup SeqsUpTo(LongListCommits, MaxRepos) :
          payload \in {Payload(year_arg, <<1>>, commits), [user |-> NoUser]}
    /\ stats = NoStats
    /\ GraphIdle /\ ReportIdle /\ CommandIdle

get_user_stats ==
    /\ pc = "call"
    /\ IF UserMissing(payload)
       THEN pc' = "raised" /\ stats' = stats
       ELSE pc' = "returned" /\ stats' = GetUserStats(year_arg, payload)
    /\ UNCHANGED <<year_arg, payload, month, graph, now, report, argv, env,
                   all_years, calls, all_stats, results, console, exit_code>>

NextStats == get_user_stats

SpecStreak == InitStreak /\ [][NextStats]_vars

SpecRepos == InitRepos /\ [][NextStats]_vars

\* length of the longest interval of days that all have a positive count
LongestRun(c) ==
    LET runs == {r \in 0..Len(c) :
                    \E i \in 1..(Len(c) + 1 - r) :
                        \A k \in i..(i + r - 1) : c[k] > 0}
    IN  CHOOSE r \in runs : \A q \in runs : q <= r

\* number of days behind the last day with count 0
TrailingPositive(c) ==
    LET zeros == {i \in 1..Len(c) : c[i] = 0}
        last == IF zeros = {} THEN 0 ELSE CHOOSE i \in zeros : \A j \in zeros : j <= i
    IN  Len(c) - last

\* C3: max_streak is the length of the longest run of consecutive days with
\* a positive count, 0 for an empty calendar or one without a positive day
C3_MaxStreakIsLongestRun ==
    pc = "returned" =>
        LET c == Counts(stats.daily_contributions)
        IN  /\ stats.max_streak = LongestRun(c)
            /\ ((\A i \in 1..Len(c) : c[i] = 0) => stats.max_streak = 0)

C3_Witness ==
    /\ pc = "returned"
    /\ Counts(stats.daily_contributions) = <<1, 0, 2, 1, 0, 1>>
    /\ stats.max_streak = 2

\* C4: current_streak is the number of positive days at the end of the
\* calendar, counted back to the last day with count 0 or to the start
C4_CurrentStreakIsTrailingRun ==
    pc = "returned" =>
        LET c == Counts(stats.daily_contributions)
        IN  /\ stats.current_streak = TrailingPositive(c)
            /\ ((c = <<>> \/ c[Len(c)] = 0) => stats.current_streak = 0)

C4_Witness ==
    /\ pc = "returned"
    /\ Counts(stats.daily_contributions) = <<1, 0, 2, 1>>
    /\ stats.current_streak = 2

\* C5: 0 <= current_streak <= max_streak <= len(daily_contributions)
C5_StreakBounds ==
    pc = "returned" =>
        /\ 0 <= stats.current_streak
        /\ stats.current_streak <= stats.max_streak
        /\ stats.max_streak <= Len(stats.daily_contributions)

C5_Witness ==
    /\ pc = "returned"
    /\ 0 < stats.current_streak
    /\ stats.current_streak < stats.max_streak
    /\ stats.max_streak < Len(stats.daily_contributions)

\* the repository list of the payload, as [name, commits] in API order
InputRepos ==
    LET rs == payload.user.contributionsCollection.commitContributionsByRepository
    IN  [i \in 1..Len(rs) |->
            [name |-> rs[i].repository.nameWithOwner,
             private |-> rs[i].repository.isPrivate,
             commits |-> rs[i].contributions.totalCount]]

\* position of the repository called name in the API order
InputIndex(name) == CHOOSE i \in 1..Len(InputRepos) : InputRepos[i].name = name

\* C6: top_repositories has min(10, n) entries of the input, by commits
\* descending, none left out has more commits than one kept, and entries
\* with equal commits keep the order they have in the input
C6_TopRepositoriesStable ==
    pc = "returned" =>
        LET top == stats.top_repositories
            inp == InputRepos
        IN  /\ Len(top) = Min(10, Len(inp))
            /\ \A i \in 1..Len(top) : \E j \in 1..Len(inp) : top[i] = inp[j]
            /\ \A i, j \in 1..Len(top) : i # j => top[i].name # top[j].name
            /\ \A i, j \in 1..Len(top) : i < j => top[i].commits >= top[j].commits
            /\ \A j \in 1..Len(inp) :
                  (\A i \in 1..Len(top) : top[i].name # inp[j].name) =>
                      \A i \in 1..Len(top) : top[i].commits >= inp[j].commits
            /\ \A i, j \in 1..Len(top) :
                  (i < j /\ top[i].commits = top[j].commits) =>
                      InputIndex(top[i].name) < InputIndex(top[j].name)

C6_Witness ==
    /\ pc = "returned"
    /\ Len(InputRepos) > 10
    /\ Len(stats.top_repositories) = 10
    /\ \E i, j \in 1..10 :
          /\ i < j
          /\ stats.top_repositories[i].commits = stats.top_repositories[j].commits
          /\ stats.top_repositories[i].name < stats.top_repositories[j].name
    /\ stats.top_repositories[1].commits > stats.top_repositories[10].commits
    /\ InputRepos[1].commits < InputRepos[11].commits

(***************************************************************************)
(* get_month_graph on the calendar of a year up to some day                *)
(***************************************************************************)
GraphYears == {2023, 2024}

MaxOrdinal == 62      \* the calendars drawn end on or before this day of the year

MaxPeriod == 2        \* daily counts repeat a drawn pattern of at most this length

GraphCounts == {0, 1, 3, 4, 6, 7}

Patterns == UNION {[1..k -> GraphCounts] : k \in 1..MaxPeriod}

\* the counts of days 1..last when the pattern is repeated
Periodic(pattern, last) == [i \in 1..last |-> pattern[((i - 1) % Len(pattern)) + 1]]

InitGraph ==
    /\ pc = "call"
    /\ year_arg \in GraphYears
    /\ \E last \in 0..MaxOrdinal, pattern \in Patterns :
          payload = Payload(year_arg, Periodic(pattern, last), <<1>>)
    /\ stats = GetUserStats(year_arg, payload)
    /\ month \in 1..12
    /\ graph = NoGraph
    /\ ReportIdle /\ CommandIdle

get_month_graph_call ==
    /\ pc = "call"
    /\ pc' = "returned"
    /\ graph' = get_month_graph(stats.daily_contributions, month)
    /\ UNCHANGED <<year_arg, payload, stats, month, now, report, argv, env,
                   all_years, calls, all_stats, results, console, exit_code>>

NextGraph == get_month_graph_call

SpecGraph == InitGraph /\ [][NextGraph]_vars

\* the days of the calendar that fall in the month, in day order
DaysOfMonth(ds, m) == SelectSeq(ds, LAMBDA day : (day.date \div 100) % 100 = m)

GlyphOfCount(c) ==
    IF c = 0 THEN Empty ELSE IF c \in 1..3 THEN Light
    ELSE IF c \in 4..6 THEN Medium ELSE Dense

\* C7: with k <= 31 days in the month the glyph string has length 31, its
\* first k characters are the glyphs of the days and the other 31-k
\* characters are the empty glyph; without a matching day the total is 0
C7_GraphPaddedWithEmptyGlyph ==
    pc = "returned" =>
        LET ds == DaysOfMonth(stats.daily_contributions, month)
            k == Len(ds)
        IN  k <= 31 =>
                /\ Len(graph.graph) = 31
                /\ \A i \in 1..k : graph.graph[i] = GlyphOfCount(ds[i].contributionCount)
                /\ \A i \in (k + 1)..31 : graph.graph[i] = Empty
                /\ (k = 0 => graph.total = 0)

\* the part of C7 the code does satisfy (length, glyphs of the days, and the
\* month without days); not a claim
GraphShape ==
    pc = "returned" =>
        LET ds == DaysOfMonth(stats.daily_contributions, month)
            k == Len(ds)
        IN  /\ k <= 31
            /\ Len(graph.graph) = 31
            /\ \A i \in 1..k : graph.graph[i] = GlyphOfCount(ds[i].contributionCount)
            /\ \A i \in (k + 1)..31 : graph.graph[i] = (IF k = 0 THEN Empty ELSE Space)
            /\ graph.total = SumSeq(Counts(ds))

(***************************************************************************)
(* print_single_report on the stats of a past or the current year          *)
(***************************************************************************)
ReportYears == {2023, 2024}

Today == [year: {2024}, month: 1..12, day: {1, 20}]

ActiveMonths == {1, 6, 12}

\* 1-based day of the year of a date
RECURSIVE OrdinalFrom(_, _, _)
OrdinalFrom(y, m, d) == IF m = 1 THEN d ELSE DaysInMonth(y, m - 1) + OrdinalFrom(y, m - 1, d)

\* number of days the calendar of year y has when fetched today: the range
\* ends today for the current year and on 31 December for a past year
CalendarLength(y, today) ==
    IF y = today.year THEN OrdinalFrom(y, today.month, today.day)
    ELSE OrdinalFrom(y, 12, 31)

\* a calendar with contributions on every day of the active months
ActiveCounts(y, last, active) ==
    [i \in 1..last |-> IF MonthOf(DateOfOrdinal(y, i)) \in active THEN 2 ELSE 0]

\* the fields the report subscripts that get_user_stats does not return
Breakdown == [public_contributions |-> 1, private_contributions |-> 1, new_repositories |-> 1]

InitReport ==
    /\ pc = "call"
    /\ now \in Today
    /\ year_arg \in ReportYears
    /\ \E active \in SUBSET ActiveMonths :
          payload = Payload(year_arg,
                            ActiveCounts(year_arg, CalendarLength(year_arg, now), active),
                            <<3, 1>>)
    /\ stats \in {GetUserStats(year_arg, payload), GetUserStats(year_arg, payload) @@ Breakdown}
    /\ report = NoReport
    /\ GraphIdle /\ CommandIdle

print_single_report_call ==
    /\ pc = "call"
    /\ report' = print_single_report(stats, now)
    /\ pc' = IF report'.raised THEN "raised" ELSE "returned"
    /\ UNCHANGED <<year_arg, payload, stats, month, graph, now, argv, env,
                   all_years, calls, all_stats, results, console, exit_code>>

NextReport == print_single_report_call

SpecReport == InitReport /\ [][NextReport]_vars

InSeq(x, sq) == \E i \in 1..Len(sq) : sq[i] = x

MonthTotal(m) == SumSeq(Counts(DaysOfMonth(stats.daily_contributions, m)))

\* month m of the reported year lies after the current month
FutureMonth(m) == stats.year > now.year \/ (stats.year = now.year /\ m > now.month)

\* C9: in the finished single-year report a month line is missing only for
\* a future month with total 0
C9_OnlyFutureEmptyMonthsSuppressed ==
    pc = "returned" =>
        \A m \in 1..12 :
            ~InSeq(m, report.lines) => (MonthTotal(m) = 0 /\ FutureMonth(m))

(***************************************************************************)
(* A run of the command create-report                                      *)
(***************************************************************************)
CliYears == {2023, 2024, 2025}

MaxPositional == 2    \* most years given as positional arguments

MaxOption == 1        \* most years given with --year

CliToday == [year |-> 2024, month |-> 3, day |-> 20]

\* what the API may answer for a year: the request raises, the user is
\* null, or a calendar with repositories comes back
Responses(y) ==
    {[raised |-> TRUE, data |-> [user |-> NoUser]],
     [raised |-> FALSE, data |-> [user |-> NoUser]],
     [raised |-> FALSE, data |-> Payload(y, <<1, 0, 2, 3>>, <<2, 5, 5>>)],
     [raised |-> FALSE, data |-> Payload(y, <<>>, <<>>)]}

Init ==
    /\ pc = "start"
    /\ argv \in [years : SeqsUpTo(CliYears, MaxPositional),
                 year : SeqsUpTo(CliYears, MaxOption),
                 json : BOOLEAN]
    /\ env \in [token : BOOLEAN, username : BOOLEAN]
    /\ now = CliToday
    /\ all_years = <<>> /\ calls = <<>> /\ all_stats = <<>> /\ results = <<>>
    /\ console = <<>> /\ exit_code = 0
    /\ year_arg = 0 /\ payload = [user |-> NoUser] /\ stats = NoStats
    /\ GraphIdle /\ report = NoReport

\* the handler "except Exception as e" around the whole command
Abort ==
    /\ console' = Append(console, Item("Error", <<>>, <<>>))
    /\ exit_code' = 1
    /\ pc' = "exited"

\* token and username lookup, all_years
Setup ==
    /\ pc = "start"
    /\ IF ~env.token \/ ~env.username
       THEN Abort /\ UNCHANGED all_years
       ELSE /\ all_years' = AllYears(argv.years, argv.year, now)
            /\ IF argv.json
               THEN pc' = "json_loop" /\ console' = console
               ELSE pc' = "text_loop"
                    /\ console' = Append(console, Item("Fetching metrics", <<>>, <<>>))
            /\ exit_code' = exit_code
    /\ UNCHANGED <<year_arg, payload, stats, month, graph, now, report, argv, env,
                   calls, all_stats, results>>

\* one iteration of "for y in all_years" of the text branch
FetchText ==
    /\ pc = "text_loop"
    /\ Len(calls) < Len(all_years)
    /\ LET y == all_years[Len(calls) + 1]
       IN  \E resp \in Responses(y) :
              /\ year_arg' = y
              /\ payload' = resp.data
              /\ IF resp.raised \/ UserMissing(resp.data)
                 THEN /\ calls' = Append(calls, [year |-> y, ok |-> FALSE])
                      /\ console' = Append(console, Item("Error fetching", <<y>>, <<>>))
                      /\ UNCHANGED <<stats, all_stats>>
                 ELSE /\ calls' = Append(calls, [year |-> y, ok |-> TRUE])
                      /\ stats' = GetUserStats(y, resp.data)
                      /\ all_stats' = Append(all_stats, stats')
                      /\ console' = console
    /\ UNCHANGED <<pc, month, graph, now, report, argv, env, all_years, results,
                   exit_code>>

\* the report chosen behind the loop of the text branch
RenderText ==
    /\ pc = "text_loop"
    /\ Len(calls) = Len(all_years)
    /\ LET kind == ReportFor(Len(all_stats))
       IN  IF kind = "single"
           THEN /\ report' = print_single_report(all_stats[1], now)
                /\ IF report'.raised
                   THEN /\ console' = console
                                \o <<Item("single", YearsOf(all_stats), <<>>),
                                     Item("Error", <<>>, <<>>)>>
                        /\ exit_code' = 1
                        /\ pc' = "exited"
                   ELSE /\ console' = Append(console, Item("single", YearsOf(all_stats), <<>>))
                        /\ exit_code' = exit_code
                        /\ pc' = "done"
           ELSE /\ console' = IF kind = "comparison"
                              THEN Append(console, Item("comparison", YearsOf(all_stats), <<>>))
                              ELSE console
                /\ pc' = "done"
                /\ UNCHANGED <<report, exit_code>>
    /\ UNCHANGED <<year_arg, payload, stats, month, graph, now, argv, env,
                   all_years, calls, all_stats, results>>

\* one iteration of "for y in all_years" of the json branch
FetchJson ==
    /\ pc = "json_loop"
    /\ Len(calls) < Len(all_years)
    /\ LET y == all_years[Len(calls) + 1]
       IN  \E resp \in Responses(y) :
              /\ year_arg' = y
              /\ payload' = resp.data
              /\ IF resp.raised \/ UserMissing(resp.data)
                 THEN /\ calls' = Append(calls, [year |-> y, ok |-> FALSE])
                      /\ Abort
                      /\ UNCHANGED <<stats, results>>
                 ELSE /\ calls' = Append(calls, [year |-> y, ok |-> TRUE])
                      /\ stats' = PopDailyContributions(GetUserStats(y, resp.data))
                      /\ results' = Append(results, stats')
                      /\ UNCHANGED <<pc, console, exit_code>>
    /\ UNCHANGED <<month, graph, now, report, argv, env, all_years, all_stats>>

\* console.print_json behind the loop of the json branch
PrintJson ==
    /\ pc = "json_loop"
    /\ Len(calls) = Len(all_years)
    /\ console' = Append(console, Item("json", YearsOf(results), results))
    /\ pc' = "done"
    /\ UNCHANGED <<year_arg, payload, stats, month, graph, now, report, argv, env,
                   all_years, calls, all_stats, results, exit_code>>

Next == Setup \/ FetchText \/ RenderText \/ FetchJson \/ PrintJson

Spec == Init /\ [][Next]_vars

Terminated == pc \in {"done", "exited"}

SetupSucceeded == env.token /\ env.username

FailedYears == {calls[i].year : i \in {j \in 1..Len(calls) : ~calls[j].ok}}

\* the years fetched successfully, in the order of the calls
FetchedYears ==
    LET okc == SelectSeq(calls, LAMBDA c : c.ok)
    IN  [i \in 1..Len(okc) |-> okc[i].year]

Reports == SelectSeq(console, LAMBDA it : it.kind \in {"single", "comparison"})

\* C1: in either output mode a failing year does not end the run: every
\* requested year is fetched and the failing year has its own message
C1_FailingYearDoesNotAbort ==
    (Terminated /\ SetupSucceeded) =>
        /\ Len(calls) = Len(all_years)
        /\ \A y \in FailedYears :
              \E i \in 1..Len(console) :
                  console[i].kind = "Error fetching" /\ console[i].years = <<y>>

\* C2: after a successful setup and at least one fetched year the exit
\* status is 0
C2_ExitZeroWhenOneYearFetched ==
    (Terminated /\ SetupSucceeded /\ FetchedYears # <<>>) => exit_code = 0

ScalarKeys ==
    {"year", "total_contributions", "commits", "issues", "pull_requests", "reviews",
     "repositories_contributed", "current_streak", "max_streak"}

\* C8: in json mode every record collected or printed has the scalar
\* statistics and top_repositories and no daily_contributions
C8_JsonRecordsWithoutCalendar ==
    argv.json =>
        /\ \A i \in 1..Len(results) :
              /\ "daily_contributions" \notin DOMAIN results[i]
              /\ ScalarKeys \cup {"top_repositories"} \subseteq DOMAIN results[i]
        /\ \A i \in 1..Len(console) :
              \A r \in 1..Len(console[i].records) :
                  /\ "daily_contributions" \notin DOMAIN console[i].records[r]
                  /\ ScalarKeys \cup {"top_repositories"} \subseteq DOMAIN console[i].records[r]
                  /\ console[i].records[r].year = all_years[r]

C8_Witness ==
    /\ argv.json /\ pc = "done"
    /\ Len(console) = 1 /\ console[1].kind = "json"
    /\ Len(console[1].records) = 3
    /\ console[1].records[1].max_streak = 2

\* C10: in text mode no report is printed before every year was attempted;
\* then none is printed for 0 fetched years, the single-year report of the
\* year for 1, and for 2 or more the comparison report over the fetched
\* years, ascending; a comparison report never has fewer than 2 years
C10_ReportChosenByFetchedCount ==
    ~argv.json =>
        /\ Reports # <<>> => Len(calls) = Len(all_years)
        /\ \A i \in 1..Len(Reports) :
              Reports[i].kind = "comparison" => Len(Reports[i].years) >= 2
        /\ (Terminated /\ SetupSucceeded) =>
              /\ Len(calls) = Len(all_years)
              /\ Len(FetchedYears) = 0 => Reports = <<>>
              /\ Len(FetchedYears) = 1 =>
                    /\ Len(Reports) = 1
                    /\ Reports[1].kind = "single"
                    /\ Reports[1].years = FetchedYears
              /\ Len(FetchedYears) >= 2 =>
                    /\ Len(Reports) = 1
                    /\ Reports[1].kind = "comparison"
                    /\ Reports[1].years = FetchedYears
                    /\ \A i, j \in 1..Len(FetchedYears) :
                          i < j => FetchedYears[i] < FetchedYears[j]

C10_Witness ==
    /\ ~argv.json /\ pc = "done"
    /\ argv.years = <<2025, 2023>> /\ argv.year = <<2024>>
    /\ calls = <<[year |-> 2023, ok |-> TRUE], [year |-> 2024, ok |-> FALSE],
                 [year |-> 2025, ok |-> TRUE]>>
    /\ Len(Reports) = 1 /\ Reports[1].kind = "comparison"
    /\ Reports[1].years = <<2023, 2025>>
====
